---------------------------- MODULE Spec2Model ----------------------------
(***************************************************************************)
(* A model of libsbapi's SBAPIClient (src/libsbapi/client.py): a Modbus    *)
(* style client whose frames are tunnelled as hexadecimal strings through  *)
(* an HTTP collaborator.  Bytes are the integers 0..255, byte strings are  *)
(* sequences of bytes, a hexadecimal string is a sequence of digits.       *)
(* Python exceptions are modelled by results [self, exc, val]: the client  *)
(* as the call left it, the exception raised (type "none" when the call    *)
(* returned) and the value returned.                                       *)
(***************************************************************************)
EXTENDS Integers, Sequences, FiniteSets, TLC

\* ------------------------------------------------------------------------
\* Program constants
\* ------------------------------------------------------------------------

\* libsbapi/constants.py is imported by client.py; the function codes are
\* the ones the wire layout fixes (0x03 read, 0x10 write, 0x17 write-read).
READ_HOLDING_REGISTERS == 3
WRITE_MULTIPLE_REGISTERS == 16
WRITE_READ_MULTIPLE_REGISTERS == 23

\* The status codes of constants.py.  last_except is formatted with %X
\* (client.py:113), so EXP_NONE is an integer that shares its domain with
\* the exception byte of a response.
MB_NO_ERR == 0
MB_SEND_ERR == 3
MB_RECV_ERR == 4
MB_EXCEPT_ERR == 7
EXP_NONE == 0

MaxRegAddr == 65535
\* The limit of a read taken one too high.
MaxReadNb_OffByOne == 125 + 1
MaxReadNb == 125
\* The limit of a write taken one too high.
MaxWriteNb_OffByOne == 123 + 1
MaxWriteNb == 123
MaxWriteReadNb == 121
AddrSpace == 65536
MbapLen == 7
MaxFrameLength == 256
ExceptBit == 128
DefaultUnitId == 2
DefaultPort == 9900
PortLimit == 65536
\* Timeouts are counted in thousandths of a second, so that the ends of the
\* open interval (0, 3600) and their neighbours are integers.
DefaultTimeout == 30000
TimeoutLimit == 3600000

\* ------------------------------------------------------------------------
\* Bytes, struct.pack / struct.unpack, slices, hexadecimal strings
\* ------------------------------------------------------------------------

\* Python's index normalisation of a slice bound n on a sequence of length len.
PyIdx(n, len) ==
    IF n < 0 THEN (IF len + n < 0 THEN 0 ELSE len + n)
    ELSE (IF n > len THEN len ELSE n)

\* s[:n]
PyUpto(s, n) == SubSeq(s, 1, PyIdx(n, Len(s)))

\* s[n:]
PyFrom(s, n) == SubSeq(s, PyIdx(n, Len(s)) + 1, Len(s))

\* s[i:j]
PySlice(s, i, j) == SubSeq(s, PyIdx(i, Len(s)) + 1, PyIdx(j, Len(s)))

\* struct.pack('>B', v) and struct.pack('>H', v) accept only values of the width.
FitsB(v) == 0 <= v /\ v <= 255
FitsH(v) == 0 <= v /\ v <= 65535
PackB(v) == <<v>>

\* A 16-bit number packed low byte first.
PackH_LittleEndian(v) == <<v % 256, v \div 256>>

\* struct.pack('>H', v): high byte first.
PackH(v) == <<v \div 256, v % 256>>

\* The two bytes taken low byte first.
UnpackH_LittleEndian(b) == b[2] * 256 + b[1]

\* struct.unpack('>H', b)[0] of a 2-byte string.
UnpackH(b) == b[1] * 256 + b[2]

\* bytes.hex(): two digits per byte, high digit first.
Hex(b) ==
    [i \in 1..(2 * Len(b)) |->
        IF i % 2 = 1 THEN b[(i + 1) \div 2] \div 16 ELSE b[i \div 2] % 16]

\* A digit of a hexadecimal string is 0..15; any other value stands for a
\* character that is no hexadecimal digit.
IsHex(s) == Len(s) % 2 = 0 /\ \A i \in 1..Len(s) : s[i] \in 0..15

\* bytes.fromhex() of a string that IsHex.
FromHex(s) == [i \in 1..(Len(s) \div 2) |-> s[2 * i - 1] * 16 + s[2 * i]]

\* ------------------------------------------------------------------------
\* Results of calls
\* ------------------------------------------------------------------------

NoExc == [type |-> "none", code |-> 0]

Ok(c, v) == [self |-> c, exc |-> NoExc, val |-> v]

Raise(c, t, code) == [self |-> c, exc |-> [type |-> t, code |-> code], val |-> <<>>]

\* SBAPIClient._InternalError and its two subclasses.
IsInternalError(e) == e.type \in {"_NetworkError", "_ModbusExcept"}

\* _recved is None, or the bytes received and not yet consumed.
NoneBytes == [none |-> TRUE, data |-> <<>>]
SomeBytes(b) == [none |-> FALSE, data |-> b]


\* ------------------------------------------------------------------------
\* The client's private methods.  c is the client: its fields, and the
\* record of what it handed to the transport (sent) and to the trace hook
\* (trace) during the current call.
\* ------------------------------------------------------------------------

\* close() releases nothing: it returns True.  events records that it was
\* called.
close(c) == [c EXCEPT !.events = Append(@, "close")]

\* on_tx_rx, the user's hook, is a no-op by default ("pass"); a subclass or
\* an assignment may put a method in its place that returns ("user") or
\* that raises ("raises").  _on_tx_rx calls it with the frame and the
\* direction; what the hook raises leaves _on_tx_rx.
_on_tx_rx(c, frame, is_tx) ==
    LET c1 == [c EXCEPT !.trace = Append(@, [frame |-> frame, is_tx |-> is_tx])]
    IN  IF c.on_tx_rx = "raises" THEN Raise(c1, "HookError", 0) ELSE Ok(c1, <<>>)

\* _req_init with the exception code of the call before left in place.
_req_init_KeepExcept(c) == [c EXCEPT !.last_error = MB_NO_ERR]

\* _req_init with the error code of the call before left in place.
_req_init_KeepError(c) == [c EXCEPT !.last_except = EXP_NONE]

\* _req_init: reset the request status flags.
_req_init(c) == [c EXCEPT !.last_error = MB_NO_ERR, !.last_except = EXP_NONE]

\* The handler with the exception code of the device not kept.
_req_except_handler_NoCode(c, e) ==
    IF e.type = "_NetworkError" THEN [c EXCEPT !.last_error = e.code]
    ELSE IF e.type = "_ModbusExcept" THEN [c EXCEPT !.last_error = MB_EXCEPT_ERR]
         ELSE c

\* _req_except_handler: record a network error or a modbus exception.
_req_except_handler(c, e) ==
    IF e.type = "_NetworkError" THEN [c EXCEPT !.last_error = e.code]
    ELSE IF e.type = "_ModbusExcept"
         THEN [c EXCEPT !.last_error = MB_EXCEPT_ERR, !.last_except = e.code]
         ELSE c

\* The header with the unit id byte not counted in its length field.
_add_mbap_NoUnitByte(c, pdu, tid) ==
    LET c1 == [c EXCEPT !.transaction_id = tid, !.draws = @ + 1]
    IN  IF FitsH(tid) /\ FitsH(Len(pdu)) /\ FitsB(c1.unit_id)
        THEN Ok(c1, PackH(tid) \o PackH(0) \o PackH(Len(pdu))
                        \o PackB(c1.unit_id) \o pdu)
        ELSE Raise(c1, "struct.error", 0)

\* _add_mbap: draw a transaction id (tid is what random.randint returns) and
\* put the 7-byte header before the PDU.  struct.pack('>HHHB', ...) raises
\* struct.error when a field does not fit its width.
_add_mbap(c, pdu, tid) ==
    LET c1 == [c EXCEPT !.transaction_id = tid, !.draws = @ + 1]
        protocol_id == 0
        length == Len(pdu) + 1
    IN  IF FitsH(tid) /\ FitsH(protocol_id) /\ FitsH(length) /\ FitsB(c1.unit_id)
        THEN Ok(c1, PackH(tid) \o PackH(protocol_id) \o PackH(length)
                        \o PackB(c1.unit_id) \o pdu)
        ELSE Raise(c1, "struct.error", 0)

\* _send with the bytes of the response put after those the receive buffer
\* holds.
_send_BufferKept(c, frame, net) ==
    LET c1 == [c EXCEPT !.sent = Append(@, [url |-> IF c.isread THEN "read" ELSE "write",
                                            command |-> Hex(frame)])]
    IN  IF net.kind = "raise" THEN Raise(c1, "_NetworkError", MB_SEND_ERR)
        ELSE IF net.result
             THEN IF IsHex(net.response)
                  THEN Ok([c1 EXCEPT !.recved =
                               SomeBytes(c.recved.data \o FromHex(net.response))], <<>>)
                  ELSE Raise(c1, "_NetworkError", MB_SEND_ERR)
             ELSE Raise(c1, "_NetworkError", MB_SEND_ERR)

\* _send: post the frame as a hexadecimal string to /read or /write.  net is
\* what the transport does: requests.post or x.json() raises (kind "raise"),
\* or the reply is a JSON object with "result" and "response".  Every
\* exception of the body, the _NetworkError raised in it included, is caught
\* and raised again as _NetworkError(MB_SEND_ERR).
_send(c, frame, net) ==
    LET c1 == [c EXCEPT !.recved = NoneBytes,
                        !.sent = Append(@, [url |-> IF c.isread THEN "read" ELSE "write",
                                            command |-> Hex(frame)])]
    IN  IF net.kind = "raise" THEN Raise(c1, "_NetworkError", MB_SEND_ERR)
        ELSE IF net.result
             THEN IF IsHex(net.response)
                  THEN Ok([c1 EXCEPT !.recved = SomeBytes(FromHex(net.response))], <<>>)
                  ELSE Raise(c1, "_NetworkError", MB_SEND_ERR)
             ELSE Raise(c1, "_NetworkError", MB_SEND_ERR)

\* _send_pdu: with the header option the PDU is framed, sent, and the frame
\* traced; without it the bare PDU is sent.
_send_pdu(c, pdu, tid, net) ==
    IF c.header
    THEN LET f == _add_mbap(c, pdu, tid)
         IN  IF f.exc.type # "none" THEN f
             ELSE LET s == _send(f.self, f.val, net)
                  IN  IF s.exc.type # "none" THEN s
                      ELSE _on_tx_rx(s.self, f.val, TRUE)
    ELSE _send(c, pdu, net)

\* _recv: take size bytes from the received buffer.
_recv(c, size) ==
    IF c.recved.none THEN Raise(c, "_NetworkError", MB_RECV_ERR)
    ELSE IF Len(c.recved.data) < size THEN Raise(c, "_NetworkError", MB_RECV_ERR)
    ELSE Ok([c EXCEPT !.recved = SomeBytes(PyFrom(c.recved.data, size))],
            PyUpto(c.recved.data, size))

_recv_all(c, size) == _recv(c, size)

\* _recv_pdu with the length required by the request checked before the
\* exception status.
_recv_pdu_MinLenFirst(c, min_len) ==
    LET h == _recv_all(c, MbapLen)
    IN  IF h.exc.type # "none" THEN h
        ELSE
        LET rx_mbap == h.val
            f_transaction_id == UnpackH(SubSeq(rx_mbap, 1, 2))
            f_protocol_id == UnpackH(SubSeq(rx_mbap, 3, 4))
            f_length == UnpackH(SubSeq(rx_mbap, 5, 6))
            f_unit_id == rx_mbap[7]
            f_transaction_err == FALSE
            f_protocol_err == f_protocol_id # 0
            f_length_err == f_length >= MaxFrameLength
            f_unit_id_err == f_unit_id # h.self.unit_id
        IN  IF f_transaction_err \/ f_protocol_err \/ f_length_err \/ f_unit_id_err
            THEN LET t == _on_tx_rx(close(h.self), rx_mbap, FALSE)
                 IN  IF t.exc.type # "none" THEN t
                     ELSE Raise(t.self, "_NetworkError", MB_RECV_ERR)
            ELSE
            LET p == _recv_all(h.self, f_length - 1)
            IN  IF p.exc.type # "none" THEN p
                ELSE
                LET rx_pdu == p.val
                    t == _on_tx_rx(p.self, rx_mbap \o rx_pdu, FALSE)
                    c2 == t.self
                IN  IF t.exc.type # "none" THEN t
                    ELSE IF Len(rx_pdu) < 2 THEN Raise(c2, "_NetworkError", MB_RECV_ERR)
                    ELSE IF Len(rx_pdu) < min_len THEN Raise(c2, "_NetworkError", MB_RECV_ERR)
                    ELSE IF rx_pdu[1] >= ExceptBit THEN Raise(c2, "_ModbusExcept", rx_pdu[2])
                    ELSE Ok(c2, rx_pdu)

\* _recv_pdu with the transaction id of the response compared with the one
\* sent.
_recv_pdu_TidCompared(c, min_len) ==
    LET h == _recv_all(c, MbapLen)
    IN  IF h.exc.type # "none" THEN h
        ELSE
        LET rx_mbap == h.val
            f_transaction_id == UnpackH(SubSeq(rx_mbap, 1, 2))
            f_protocol_id == UnpackH(SubSeq(rx_mbap, 3, 4))
            f_length == UnpackH(SubSeq(rx_mbap, 5, 6))
            f_unit_id == rx_mbap[7]
            f_transaction_err == f_transaction_id # h.self.transaction_id
            f_protocol_err == f_protocol_id # 0
            f_length_err == f_length >= MaxFrameLength
            f_unit_id_err == f_unit_id # h.self.unit_id
        IN  IF f_transaction_err \/ f_protocol_err \/ f_length_err \/ f_unit_id_err
            THEN LET t == _on_tx_rx(close(h.self), rx_mbap, FALSE)
                 IN  IF t.exc.type # "none" THEN t
                     ELSE Raise(t.self, "_NetworkError", MB_RECV_ERR)
            ELSE
            LET p == _recv_all(h.self, f_length - 1)
            IN  IF p.exc.type # "none" THEN p
                ELSE
                LET rx_pdu == p.val
                    t == _on_tx_rx(p.self, rx_mbap \o rx_pdu, FALSE)
                    c2 == t.self
                IN  IF t.exc.type # "none" THEN t
                    ELSE IF Len(rx_pdu) < 2 THEN Raise(c2, "_NetworkError", MB_RECV_ERR)
                    ELSE IF rx_pdu[1] >= ExceptBit THEN Raise(c2, "_ModbusExcept", rx_pdu[2])
                    ELSE IF Len(rx_pdu) < min_len THEN Raise(c2, "_NetworkError", MB_RECV_ERR)
                    ELSE Ok(c2, rx_pdu)

\* _recv_pdu: receive and check the MBAP header, then the PDU.
_recv_pdu(c, min_len) ==
    LET h == _recv_all(c, MbapLen)
    IN  IF h.exc.type # "none" THEN h
        ELSE
        LET rx_mbap == h.val
            f_transaction_id == UnpackH(SubSeq(rx_mbap, 1, 2))
            f_protocol_id == UnpackH(SubSeq(rx_mbap, 3, 4))
            f_length == UnpackH(SubSeq(rx_mbap, 5, 6))
            f_unit_id == rx_mbap[7]
            f_transaction_err == FALSE
            f_protocol_err == f_protocol_id # 0
            f_length_err == f_length >= MaxFrameLength
            f_unit_id_err == f_unit_id # h.self.unit_id
        IN  IF f_transaction_err \/ f_protocol_err \/ f_length_err \/ f_unit_id_err
            THEN LET t == _on_tx_rx(close(h.self), rx_mbap, FALSE)
                 IN  IF t.exc.type # "none" THEN t
                     ELSE Raise(t.self, "_NetworkError", MB_RECV_ERR)
            ELSE
            LET p == _recv_all(h.self, f_length - 1)
            IN  IF p.exc.type # "none" THEN p
                ELSE
                LET rx_pdu == p.val
                    t == _on_tx_rx(p.self, rx_mbap \o rx_pdu, FALSE)
                    c2 == t.self
                IN  IF t.exc.type # "none" THEN t
                    ELSE IF Len(rx_pdu) < 2 THEN Raise(c2, "_NetworkError", MB_RECV_ERR)
                    ELSE IF rx_pdu[1] >= ExceptBit THEN Raise(c2, "_ModbusExcept", rx_pdu[2])
                    ELSE IF Len(rx_pdu) < min_len THEN Raise(c2, "_NetworkError", MB_RECV_ERR)
                    ELSE Ok(c2, rx_pdu)

\* _req_pdu: reset the status, send the PDU, receive the answer.
_req_pdu(c, tx_pdu, rx_min_len, tid, net) ==
    LET s == _send_pdu(_req_init(c), tx_pdu, tid, net)
    IN  IF s.exc.type # "none" THEN s ELSE _recv_pdu(s.self, rx_min_len)

\* ------------------------------------------------------------------------
\* The property setters.  A value a caller assigns is of some Python type:
\* [type, s, n] with s the text of a str and n the number of an int, a float
\* (in thousandths) or a bool.
\* ------------------------------------------------------------------------

NoValue == [type |-> "None", s |-> "", n |-> 0]
StrValue(s) == [type |-> "str", s |-> s, n |-> 0]
IntValue(n) == [type |-> "int", s |-> "", n |-> n]
FloatValue(n) == [type |-> "float", s |-> "", n |-> n]
BoolValue(n) == [type |-> "bool", s |-> "", n |-> n]

\* utils.valid_host: the string is an IPv4 or IPv6 address or a hostname.
valid_host(s) == s \in {"121.134.228.36", "localhost", "::1"}

\* The numbers that the strings float() can parse denote.
FloatOf == [t \in {"0.001", "3600"} |-> IF t = "0.001" THEN 1 ELSE TimeoutLimit]

\* float(value): the number of an int, a float or a bool, the number a str
\* denotes or ValueError, TypeError for None.
float(c, value) ==
    IF value.type \in {"int", "float", "bool"} THEN Ok(c, value.n)
    ELSE IF value.type = "str"
         THEN IF value.s \in DOMAIN FloatOf THEN Ok(c, FloatOf[value.s])
              ELSE Raise(c, "ValueError", 0)
         ELSE Raise(c, "TypeError", 0)

\* An assignment stores the value; events records it.
Store(c) == [c EXCEPT !.events = Append(@, "store")]

\* host.setter
host_setter(c, value) ==
    IF value.type # "str" THEN Raise(c, "TypeError", 0)
    ELSE IF valid_host(value.s)
         THEN IF c.host # value.s
              THEN Ok([Store(close(c)) EXCEPT !.host = value.s], <<>>)
              ELSE Ok(c, <<>>)
         ELSE Raise(c, "ValueError", 0)

\* The port stored without close() called first.
port_setter_NoClose(c, value) ==
    IF value.type # "int" THEN Raise(c, "TypeError", 0)
    ELSE IF 0 < value.n /\ value.n < PortLimit
         THEN IF c.port # value.n
              THEN Ok([Store(c) EXCEPT !.port = value.n], <<>>)
              ELSE Ok(c, <<>>)
         ELSE Raise(c, "ValueError", 0)

\* port.setter
port_setter(c, value) ==
    IF value.type # "int" THEN Raise(c, "TypeError", 0)
    ELSE IF 0 < value.n /\ value.n < PortLimit
         THEN IF c.port # value.n
              THEN Ok([Store(close(c)) EXCEPT !.port = value.n], <<>>)
              ELSE Ok(c, <<>>)
         ELSE Raise(c, "ValueError", 0)

\* timeout.setter
timeout_setter(c, value) ==
    LET f == float(c, value)
    IN  IF f.exc.type # "none" THEN f
        ELSE IF 0 < f.val /\ f.val < TimeoutLimit
             THEN IF c.timeout # f.val
                  THEN Ok([Store(close(c)) EXCEPT !.timeout = f.val], <<>>)
                  ELSE Ok(c, <<>>)
             ELSE Raise(c, "ValueError", 0)

\* ------------------------------------------------------------------------
\* The public operations.  A returned value is None, a list of registers or
\* a bool.
\* ------------------------------------------------------------------------

NoneVal == [kind |-> "None", regs |-> <<>>, flag |-> FALSE]
ListVal(regs) == [kind |-> "list", regs |-> regs, flag |-> FALSE]
BoolVal(b) == [kind |-> "bool", regs |-> <<>>, flag |-> b]

Return(c, v) == [self |-> c, exc |-> NoExc, val |-> v]
Propagate(r) == [self |-> r.self, exc |-> r.exc, val |-> NoneVal]

\* An argument out of range handled as the internal errors are: recorded,
\* and the sentinel returned.
ValueError_AsSentinel(c) ==
    [self |-> [c EXCEPT !.last_error = MB_SEND_ERR], exc |-> NoExc, val |-> NoneVal]

\* raise ValueError(...): an argument is out of range.
ValueError(c) == Propagate(Raise(c, "ValueError", 0))

\* The value custom_request returns: the bytes of a PDU.
BytesVal(b) == [kind |-> "bytes", regs |-> b, flag |-> FALSE]

\* The "except SBAPIClient._InternalError" clause of the operations: an
\* internal error is recorded and the sentinel returned; any other exception
\* leaves the operation.
Except(r, sentinel) ==
    IF IsInternalError(r.exc) THEN Return(_req_except_handler(r.self, r.exc), sentinel)
    ELSE Propagate(r)

\* custom_request: send the caller's PDU, return the PDU received.
custom_request(c, pdu, tid, net) ==
    LET q == _req_pdu(c, pdu, 2, tid, net)
    IN  IF q.exc.type # "none" THEN Except(q, NoneVal)
        ELSE Return(q.self, BytesVal(q.val))

\* The register part of a write PDU: each value packed with '>H'.
PackRegs(values) ==
    [i \in 1..(2 * Len(values)) |->
        IF i % 2 = 1 THEN values[(i + 1) \div 2] \div 256 ELSE values[i \div 2] % 256]

\* The check of the register values left out.
RegsInRange_Unchecked(values) == TRUE

\* "check current register value": every value fits a register.
RegsInRange(values) ==
    \A i \in 1..Len(values) : 0 <= values[i] /\ values[i] <= MaxRegAddr

\* The byte count compared with the count asked for only.
ByteCountOk_NoLength(byte_count, nb, f_regs) == ~(byte_count < 2 * nb)

\* "check rx_byte_count": the buffer size is consistent and holds at least
\* the requested number of registers.
ByteCountOk(byte_count, nb, f_regs) ==
    ~(byte_count < 2 * nb \/ byte_count # Len(f_regs))

\* The echoed address compared only.
write_ok_AddrOnly(regs_addr, regs_value, resp_write_addr, resp_write_count) ==
    resp_write_addr = regs_addr

\* "check response fields" of a write: the echo agrees with the request.
write_ok(regs_addr, regs_value, resp_write_addr, resp_write_count) ==
    resp_write_addr = regs_addr /\ resp_write_count = Len(regs_value)

\* The response decoding shared by read_holding_registers and
\* write_read_multiple_registers: byte count, then nb registers.
DecodeRegs(c, rx_pdu, nb) ==
    IF Len(rx_pdu) < 2 THEN Raise(c, "IndexError", 0)
    ELSE
    LET byte_count == rx_pdu[2]
        f_regs == PyFrom(rx_pdu, 2)
    IN  IF ~ByteCountOk(byte_count, nb, f_regs)
        THEN Raise(c, "_NetworkError", MB_RECV_ERR)
        ELSE IF \E i \in 0..(nb - 1) : Len(PySlice(f_regs, i * 2, i * 2 + 2)) # 2
             THEN Raise(c, "struct.error", 0)
             ELSE Ok(c, [i \in 1..nb |-> UnpackH(PySlice(f_regs, (i - 1) * 2, (i - 1) * 2 + 2))])

read_holding_registers(c, reg_addr, reg_nb, unit_id_arg, tid, net) ==
    IF ~(0 <= reg_addr /\ reg_addr <= MaxRegAddr) THEN ValueError(c)
    ELSE IF ~(1 <= reg_nb /\ reg_nb <= MaxReadNb) THEN ValueError(c)
    ELSE IF reg_addr + reg_nb > AddrSpace THEN ValueError(c)
    ELSE
    LET c1 == [c EXCEPT !.isread = TRUE, !.unit_id = unit_id_arg]
        tx_pdu == PackB(READ_HOLDING_REGISTERS) \o PackH(reg_addr) \o PackH(reg_nb)
        q == _req_pdu(c1, tx_pdu, 3, tid, net)
    IN  IF q.exc.type # "none" THEN Except(q, NoneVal)
        ELSE LET d == DecodeRegs(q.self, q.val, reg_nb)
             IN  IF d.exc.type # "none" THEN Except(d, NoneVal)
                 ELSE Return(d.self, ListVal(d.val))

write_multiple_registers(c, regs_addr, regs_value, unit_id_arg, tid, net) ==
    IF ~(0 <= regs_addr /\ regs_addr <= MaxRegAddr) THEN ValueError(c)
    ELSE IF ~(1 <= Len(regs_value) /\ Len(regs_value) <= MaxWriteNb)
         THEN ValueError(c)
    ELSE IF regs_addr + Len(regs_value) > AddrSpace THEN ValueError(c)
    ELSE
    LET c1 == [c EXCEPT !.isread = FALSE, !.unit_id = unit_id_arg]
    IN  IF ~RegsInRange(regs_value) THEN ValueError(c1)
        ELSE
        LET pdu_regs_part == PackRegs(regs_value)
            bytes_nb == Len(pdu_regs_part)
            tx_pdu == PackB(WRITE_MULTIPLE_REGISTERS) \o PackH(regs_addr)
                        \o PackH(Len(regs_value)) \o PackB(bytes_nb) \o pdu_regs_part
            q == _req_pdu(c1, tx_pdu, 5, tid, net)
        IN  IF q.exc.type # "none" THEN Except(q, BoolVal(FALSE))
            ELSE IF Len(PySlice(q.val, 1, 5)) # 4
                 THEN Propagate(Raise(q.self, "struct.error", 0))
            ELSE
            LET resp_write_addr == UnpackH(PySlice(q.val, 1, 3))
                resp_write_count == UnpackH(PySlice(q.val, 3, 5))
            IN  Return(q.self, BoolVal(write_ok(regs_addr, regs_value,
                                                resp_write_addr, resp_write_count)))

\* write_read_multiple_registers with the direction set as a read sets it.
write_read_multiple_registers_AsRead(c, write_addr, write_values, read_addr, read_nb, tid, net) ==
    IF ~(0 <= write_addr /\ write_addr <= MaxRegAddr) THEN ValueError(c)
    ELSE IF ~(1 <= Len(write_values) /\ Len(write_values) <= MaxWriteReadNb)
         THEN ValueError(c)
    ELSE IF write_addr + Len(write_values) > AddrSpace THEN ValueError(c)
    ELSE IF ~(0 <= read_addr /\ read_addr <= MaxRegAddr) THEN ValueError(c)
    ELSE IF ~(1 <= read_nb /\ read_nb <= MaxReadNb) THEN ValueError(c)
    ELSE IF read_addr + read_nb > AddrSpace THEN ValueError(c)
    ELSE IF ~RegsInRange(write_values) THEN ValueError(c)
    ELSE
    LET pdu_regs_part == PackRegs(write_values)
        bytes_nb == Len(pdu_regs_part)
        tx_pdu == PackB(WRITE_READ_MULTIPLE_REGISTERS) \o PackH(read_addr) \o PackH(read_nb)
                    \o PackH(write_addr) \o PackH(Len(write_values)) \o PackB(bytes_nb)
                    \o pdu_regs_part
        q == _req_pdu([c EXCEPT !.isread = TRUE], tx_pdu, 4, tid, net)
    IN  IF q.exc.type # "none" THEN Except(q, NoneVal)
        ELSE LET d == DecodeRegs(q.self, q.val, read_nb)
             IN  IF d.exc.type # "none" THEN Except(d, NoneVal)
                 ELSE Return(d.self, ListVal(d.val))

write_read_multiple_registers(c, write_addr, write_values, read_addr, read_nb, tid, net) ==
    IF ~(0 <= write_addr /\ write_addr <= MaxRegAddr) THEN ValueError(c)
    ELSE IF ~(1 <= Len(write_values) /\ Len(write_values) <= MaxWriteReadNb)
         THEN ValueError(c)
    ELSE IF write_addr + Len(write_values) > AddrSpace THEN ValueError(c)
    ELSE IF ~(0 <= read_addr /\ read_addr <= MaxRegAddr) THEN ValueError(c)
    ELSE IF ~(1 <= read_nb /\ read_nb <= MaxReadNb) THEN ValueError(c)
    ELSE IF read_addr + read_nb > AddrSpace THEN ValueError(c)
    ELSE IF ~RegsInRange(write_values) THEN ValueError(c)
    ELSE
    LET pdu_regs_part == PackRegs(write_values)
        bytes_nb == Len(pdu_regs_part)
        tx_pdu == PackB(WRITE_READ_MULTIPLE_REGISTERS) \o PackH(read_addr) \o PackH(read_nb)
                    \o PackH(write_addr) \o PackH(Len(write_values)) \o PackB(bytes_nb)
                    \o pdu_regs_part
        q == _req_pdu(c, tx_pdu, 4, tid, net)
    IN  IF q.exc.type # "none" THEN Except(q, NoneVal)
        ELSE LET d == DecodeRegs(q.self, q.val, read_nb)
             IN  IF d.exc.type # "none" THEN Except(d, NoneVal)
                 ELSE Return(d.self, ListVal(d.val))

\* ------------------------------------------------------------------------
\* examples/retractable.py: a control script that packs a 32-bit time into
\* two registers.  struct's formats 'i' and 'HH' have no byte order prefix:
\* they use the byte order of the host, order.
\* ------------------------------------------------------------------------

\* The smallest int of 32 bits.
MinInt32 == -2147483647 - 1

\* The low 31 bits of the two's complement of n.
Low31(n) == IF n < 0 THEN n - MinInt32 ELSE n

\* A byte string in the host's order, given low byte first.
Native(order, b) == IF order = "little" THEN b ELSE [i \in 1..Len(b) |-> b[Len(b) + 1 - i]]

\* struct.pack('i', n): the 4 bytes of the two's complement of n.
pack_i(order, n) ==
    Native(order, << Low31(n) % 256,
                     (Low31(n) \div 256) % 256,
                     (Low31(n) \div 65536) % 256,
                     (Low31(n) \div 16777216) + (IF n < 0 THEN 128 ELSE 0) >>)

\* struct.unpack('i', b)[0]
unpack_i(order, b) ==
    LET l == Native(order, b)
        m == ((l[4] % 128) * 256 + l[3]) * 65536 + l[2] * 256 + l[1]
    IN  IF l[4] >= 128 THEN MinInt32 + m ELSE m

\* struct.pack('HH', r1, r2): two unsigned shorts, one after the other.
pack_HH(order, r1, r2) ==
    Native(order, <<r1 % 256, r1 \div 256>>) \o Native(order, <<r2 % 256, r2 \div 256>>)

\* struct.unpack('HH', b)
unpack_HH(order, b) ==
    LET h1 == Native(order, SubSeq(b, 1, 2))
        h2 == Native(order, SubSeq(b, 3, 4))
    IN  <<h1[2] * 256 + h1[1], h2[2] * 256 + h2[1]>>

\* The registers sendcommand builds: the command, the operation id, and the
\* two halves of sec when a time is given.
reg(order, cmd, id, sec) ==
    <<cmd, id>> \o (IF sec.type = "None" THEN <<>> ELSE unpack_HH(order, pack_i(order, sec.n)))

\* getremaintime(reg1, reg2)
getremaintime(order, reg1, reg2) == unpack_i(order, pack_HH(order, reg1, reg2))

\* The value getremaintime returns: an int.
IntVal(n) == [kind |-> "int", regs |-> <<n>>, flag |-> FALSE]

\* The script's globals: the register index of the device, the operation
\* id it starts from, and the base address and unit of its writes.
idx == 36
FirstOpid == 1
CommandBase == 500
CommandUnit == 4

\* ------------------------------------------------------------------------
\* State
\* ------------------------------------------------------------------------

VARIABLES
    header,          \* self._header
    transaction_id,  \* self._transaction_id
    last_error,      \* self._last_error
    last_except,     \* self._last_except
    recved,          \* self._recved
    isread,          \* self._isread
    unit_id,         \* self.unit_id
    on_tx_rx,        \* self.on_tx_rx, the trace hook
    host,            \* self._host
    port,            \* self._port
    timeout,         \* self._timeout, in thousandths of a second
    byteorder,       \* sys.byteorder of the host of examples/retractable.py
    opid,            \* the global opid of examples/retractable.py
    call,            \* the last public call: operation and arguments
    outcome,         \* how it ended: returned value or exception raised
    net,             \* what the transport did in it
    sent,            \* what it posted to the transport, in order
    trace,           \* what it passed to the trace hook, in order
    events           \* its calls of close() and its stores of a setting, in order

vars == <<header, transaction_id, last_error, last_except, recved, isread, unit_id,
          on_tx_rx, host, port, timeout, byteorder, opid, call, outcome, net, sent, trace, events>>

\* The transport was not invoked.
NoNet == [kind |-> "none", result |-> FALSE, response |-> <<>>]

NoCall == [op |-> "none", addr |-> 0, nb |-> 0, values |-> <<>>, unit |-> 0,
           read_addr |-> 0, value |-> NoValue]

\* SBAPIClient.__init__, with the header option either way and the default
\* host, port and timeout, which the constructor stores through the setters.
\* No script runs: its globals have no value.
Init ==
    /\ header \in BOOLEAN
    /\ transaction_id = 0
    /\ last_error = MB_NO_ERR
    /\ last_except = EXP_NONE
    /\ recved = NoneBytes
    /\ isread = TRUE
    /\ unit_id = DefaultUnitId
    /\ on_tx_rx = "pass"
    /\ host = "121.134.228.36"
    /\ port = DefaultPort
    /\ timeout = DefaultTimeout
    /\ byteorder = "none"
    /\ opid = 0
    /\ call = NoCall
    /\ outcome = [kind |-> "none", exc |-> "none", val |-> NoneVal]
    /\ net = NoNet
    /\ sent = <<>>
    /\ trace = <<>>
    /\ events = <<>>

\* The byte orders a host may have.
ByteOrders == {"little", "big"}

\* examples/retractable.py has started on a host of either byte order: its
\* globals are set, and its client is constructed with the default header
\* option.
InitScript ==
    /\ header = TRUE
    /\ transaction_id = 0
    /\ last_error = MB_NO_ERR
    /\ last_except = EXP_NONE
    /\ recved = NoneBytes
    /\ isread = TRUE
    /\ unit_id = DefaultUnitId
    /\ on_tx_rx = "pass"
    /\ host = "121.134.228.36"
    /\ port = DefaultPort
    /\ timeout = DefaultTimeout
    /\ byteorder \in ByteOrders
    /\ opid = FirstOpid
    /\ call = NoCall
    /\ outcome = [kind |-> "none", exc |-> "none", val |-> NoneVal]
    /\ net = NoNet
    /\ sent = <<>>
    /\ trace = <<>>
    /\ events = <<>>

\* The client as a public call finds it.
Begin ==
    [header |-> header, transaction_id |-> transaction_id, last_error |-> last_error,
     last_except |-> last_except, recved |-> recved, isread |-> isread,
     unit_id |-> unit_id, on_tx_rx |-> on_tx_rx, host |-> host, port |-> port,
     timeout |-> timeout, sent |-> <<>>, trace |-> <<>>, events |-> <<>>, draws |-> 0]

\* What random.randint(0, 65535) may return.
Tids == {258, 65535}

\* The draws and transport behaviours a call can meet, the transport's taken
\* from nets: r is the call's result under one of them; a call that drew no
\* transaction id, or did not reach the transport, ends the same way under
\* all of them.
Oracles(r, nets) ==
    (IF r.self.draws = 0 THEN {258} ELSE Tids)
        \X (IF r.self.sent = <<>> THEN {NoNet} ELSE nets)

\* The state a call leaves: the client's fields, and the record of the call.
FinishClient(c, r, n) ==
    /\ header' = r.self.header
    /\ transaction_id' = r.self.transaction_id
    /\ last_error' = r.self.last_error
    /\ last_except' = r.self.last_except
    /\ recved' = r.self.recved
    /\ isread' = r.self.isread
    /\ unit_id' = r.self.unit_id
    /\ on_tx_rx' = r.self.on_tx_rx
    /\ host' = r.self.host
    /\ port' = r.self.port
    /\ timeout' = r.self.timeout
    /\ call' = c
    /\ outcome' = [kind |-> IF r.exc.type = "none" THEN "return" ELSE "raise",
                   exc |-> r.exc.type, val |-> r.val]
    /\ net' = n
    /\ sent' = r.self.sent
    /\ trace' = r.self.trace
    /\ events' = r.self.events

\* The state a call of the library leaves; the script's global is no part
\* of it.
Finish(c, r, n) == FinishClient(c, r, n) /\ UNCHANGED <<byteorder, opid>>

\* A caller invokes read_holding_registers with arguments a of args:
\* <<reg_addr, reg_nb, unit_id>>.
ReadHoldingRegisters(args, nets) ==
    \E a \in args :
        \E o \in Oracles(read_holding_registers(Begin, a[1], a[2], a[3], 258, NoNet), nets) :
            Finish([op |-> "read", addr |-> a[1], nb |-> a[2], values |-> <<>>,
                    unit |-> a[3], read_addr |-> 0, value |-> NoValue],
                   read_holding_registers(Begin, a[1], a[2], a[3], o[1], o[2]),
                   o[2])

\* A caller invokes write_multiple_registers with arguments a of args:
\* <<regs_addr, regs_value, unit_id>>.
WriteMultipleRegisters(args, nets) ==
    \E a \in args :
        \E o \in Oracles(write_multiple_registers(Begin, a[1], a[2], a[3], 258, NoNet), nets) :
            Finish([op |-> "write", addr |-> a[1], nb |-> 0, values |-> a[2],
                    unit |-> a[3], read_addr |-> 0, value |-> NoValue],
                   write_multiple_registers(Begin, a[1], a[2], a[3], o[1], o[2]),
                   o[2])

\* A caller invokes write_read_multiple_registers with arguments a of args:
\* <<write_addr, write_values, read_addr, read_nb>>.  The call takes no unit
\* id; the record holds the one the client had.
WriteReadMultipleRegisters(args, nets) ==
    \E a \in args :
        \E o \in Oracles(write_read_multiple_registers(Begin, a[1], a[2], a[3], a[4],
                                                       258, NoNet), nets) :
            Finish([op |-> "write_read", addr |-> a[1], nb |-> a[4], values |-> a[2],
                    unit |-> unit_id, read_addr |-> a[3], value |-> NoValue],
                   write_read_multiple_registers(Begin, a[1], a[2], a[3], a[4], o[1], o[2]),
                   o[2])

\* The transport answers with the very string it was handed: r is the call's
\* result up to the point where it posts.
Echo(r) == [kind |-> "reply", result |-> TRUE, response |-> r.self.sent[1].command]

\* A caller invokes custom_request with a PDU of pdus; the transport does
\* one of nets, or echoes the request.
CustomRequest(pdus, nets) ==
    \E p \in pdus :
        \E t \in Tids :
            \E n \in (IF custom_request(Begin, p, t, NoNet).self.sent = <<>>
                      THEN {NoNet}
                      ELSE nets \cup {Echo(custom_request(Begin, p, t, NoNet))}) :
                Finish([op |-> "custom", addr |-> 0, nb |-> 0, values |-> p,
                        unit |-> unit_id, read_addr |-> 0, value |-> NoValue],
                       custom_request(Begin, p, t, n),
                       n)

\* A caller assigns the attribute unit_id a value of units; nothing else
\* changes.
SetUnitId(units) ==
    \E u \in units :
        /\ unit_id' = u
        /\ call' = [NoCall EXCEPT !.op = "unit_id", !.unit = u]
        /\ outcome' = [kind |-> "return", exc |-> "none", val |-> NoneVal]
        /\ net' = NoNet
        /\ sent' = <<>>
        /\ trace' = <<>>
        /\ events' = <<>>
        /\ UNCHANGED <<header, transaction_id, last_error, last_except, recved, isread,
                       on_tx_rx, host, port, timeout, byteorder, opid>>

\* A caller puts a hook of hooks in the place of on_tx_rx; nothing else
\* changes.
SetOnTxRx(hooks) ==
    \E h \in hooks :
        /\ on_tx_rx' = h
        /\ call' = [NoCall EXCEPT !.op = "on_tx_rx"]
        /\ outcome' = [kind |-> "return", exc |-> "none", val |-> NoneVal]
        /\ net' = NoNet
        /\ sent' = <<>>
        /\ trace' = <<>>
        /\ events' = <<>>
        /\ UNCHANGED <<header, transaction_id, last_error, last_except, recved, isread,
                       unit_id, host, port, timeout, byteorder, opid>>

\* A caller assigns host a value of values.
SetHost(values) ==
    \E v \in values :
        Finish([NoCall EXCEPT !.op = "host", !.value = v], Propagate(host_setter(Begin, v)),
               NoNet)

\* A caller assigns port a value of values.
SetPort(values) ==
    \E v \in values :
        Finish([NoCall EXCEPT !.op = "port", !.value = v], Propagate(port_setter(Begin, v)),
               NoNet)

\* A caller assigns timeout a value of values.
SetTimeout(values) ==
    \E v \in values :
        Finish([NoCall EXCEPT !.op = "timeout", !.value = v],
               Propagate(timeout_setter(Begin, v)), NoNet)

\* The script calls sendcommand(cmd, sec) below the operation id limit:
\* opid is incremented, the registers built and written to the device.
SendCommand(limit, cmds, secs, nets) ==
    /\ opid < limit
    /\ \E cmd \in cmds, sec \in secs :
           \E o \in Oracles(write_multiple_registers(
                                Begin, CommandBase + idx, reg(byteorder, cmd, opid + 1, sec),
                                CommandUnit, 258, NoNet), nets) :
               /\ FinishClient([op |-> "write", addr |-> CommandBase + idx, nb |-> 0,
                                values |-> reg(byteorder, cmd, opid + 1, sec),
                                unit |-> CommandUnit, read_addr |-> 0, value |-> sec],
                               write_multiple_registers(
                                   Begin, CommandBase + idx,
                                   reg(byteorder, cmd, opid + 1, sec),
                                   CommandUnit, o[1], o[2]),
                               o[2])
               /\ opid' = opid + 1
               /\ UNCHANGED byteorder

\* The script calls getremaintime with a pair of registers of pairs.
GetRemainTime(pairs) ==
    \E p \in pairs :
        /\ call' = [NoCall EXCEPT !.op = "getremaintime", !.values = p]
        /\ outcome' = [kind |-> "return", exc |-> "none",
                       val |-> IntVal(getremaintime(byteorder, p[1], p[2]))]
        /\ net' = NoNet
        /\ sent' = <<>>
        /\ trace' = <<>>
        /\ events' = <<>>
        /\ UNCHANGED <<header, transaction_id, last_error, last_except, recved, isread,
                       unit_id, on_tx_rx, host, port, timeout, byteorder, opid>>

\* ------------------------------------------------------------------------
\* Exchanges: a few calls, and a transport that answers in every way
\* ------------------------------------------------------------------------

\* The number of bytes by which a response's length field may exceed or fall
\* short of the payload that follows it.
MaxTrailing == 1

\* A response frame with the given header fields.
Frame(tid, proto, length, unit, pdu) ==
    PackH(tid) \o PackH(proto) \o PackH(length) \o PackB(unit) \o pdu

\* Reads of 2 and 3 registers of unit 2, a read of a unit id that does not
\* fit a byte, and a read rejected for its count.
ReadCalls ==
    { <<0, 2, DefaultUnitId>>, <<0, 3, DefaultUnitId>>, <<0, 2, 256>>, <<0, 0, DefaultUnitId>> }

\* A write of two registers to unit 4, and one rejected for a value.
WriteCalls == { <<0, <<1, 258>>, 4>>, <<0, <<1, 65536>>, 4>> }

\* A write of one register with a read of one, and one rejected for its
\* empty list.
WriteReadCalls == { <<0, <<1>>, 0, 1>>, <<0, <<>>, 0, 1>> }

\* Response payloads to unit 2: register lists for 1, 2 and 3 registers,
\* byte counts that disagree with what follows, exception responses, and
\* payloads shorter than an operation needs.
Payloads2 ==
    { <<3, 2, 0, 1>>,
      <<3, 4, 0, 1, 0, 0>>,
      <<3, 6, 0, 1, 0, 0, 0, 2>>,
      <<3, 4, 0, 1>>,
      <<3, 4, 0, 1, 0, 0, 9>>,
      <<23, 2, 1, 2>>,
      <<131, 2>>,
      <<144, 0, 9>>,
      <<>>,
      <<3>>,
      <<3, 2>> }

\* Response payloads to unit 4: write echoes that agree with the request,
\* differ in the address or in the count, or are too short; an exception.
Payloads4 ==
    { <<16, 0, 0, 0, 2>>,
      <<16, 0, 0, 0, 1>>,
      <<16, 0, 1, 0, 2>>,
      <<16, 0, 0, 0>>,
      <<144, 1>> }

\* The payloads whose frames are also sent with one header field wrong.
FaultPayloads == { <<3, 4, 0, 1, 0, 0>> }

\* The byte strings the transport answers with: whole frames; frames with a
\* foreign transaction id, a wrong protocol id, a length field that is too
\* large, zero, or more or less than the payload that follows; and strings
\* shorter than a header.
Responses ==
    {Frame(258, 0, Len(p) + 1, DefaultUnitId, p) : p \in Payloads2}
        \cup {Frame(258, 0, Len(p) + 1, 4, p) : p \in Payloads4}
        \cup {Frame(7, 0, Len(p) + 1, DefaultUnitId, p) : p \in FaultPayloads}
        \cup {Frame(258, 1, Len(p) + 1, DefaultUnitId, p) : p \in FaultPayloads}
        \cup {Frame(258, 0, l, DefaultUnitId, p) :
                 l \in {0, MaxFrameLength}, p \in FaultPayloads}
        \cup {Frame(258, 0, Len(p) + 1 + d, DefaultUnitId, p) :
                 d \in 1..MaxTrailing, p \in FaultPayloads}
        \cup {Frame(258, 0, Len(p) + 1 - d, DefaultUnitId, p) :
                 d \in 1..MaxTrailing, p \in FaultPayloads}
        \cup {Frame(258, 0, 0, DefaultUnitId, p \o <<9>>) : p \in FaultPayloads}
        \cup { <<>>, <<1, 2, 0, 0, 0, 5>> }

\* What the transport does with a request: it raises, it answers with
\* "result" not true, or it answers with "result" true and a response that
\* is the hexadecimal form of a byte string, or no hexadecimal string at all
\* (an odd number of digits, a character that is no digit).
Nets ==
    { [kind |-> "raise", result |-> FALSE, response |-> <<>>] }
        \cup { [kind |-> "reply", result |-> FALSE,
                response |-> Hex(Frame(258, 0, 7, DefaultUnitId, <<3, 4, 0, 1, 0, 0>>))] }
        \cup { [kind |-> "reply", result |-> TRUE, response |-> Hex(b)] : b \in Responses }
        \cup { [kind |-> "reply", result |-> TRUE, response |-> h] :
                 h \in { <<0, 1, 0>>, <<0, 16>> } }

Next ==
    \/ ReadHoldingRegisters(ReadCalls, Nets)
    \/ WriteMultipleRegisters(WriteCalls, Nets)
    \/ WriteReadMultipleRegisters(WriteReadCalls, Nets)

Spec == Init /\ [][Next]_vars

\* ------------------------------------------------------------------------
\* Arguments: calls with arguments at, within and beyond every limit, and a
\* transport that fails or reports an exception
\* ------------------------------------------------------------------------

\* The longest list of register values enumerated value by value.
MaxListLen == 2

\* Register addresses: below, at both ends of and beyond the address space.
Addrs == {-1, 0, MaxRegAddr, AddrSpace}

\* Register counts: around both limits of a read.
Counts == {0, 1, 2, MaxReadNb, MaxReadNb + 1}

\* A list of n values, all v but the last, which is w.
Fill(n, v, w) == [i \in 1..n |-> IF i = n THEN w ELSE v]

\* Last values of a list: in range (low and high byte differing), at the
\* upper limit, and out of range on both sides.
LastValues == {1, 258, -1, MaxRegAddr, MaxRegAddr + 1}

\* Lists of values: every length up to MaxListLen, and lists around the
\* limits of both write operations.
ValueLists ==
    {Fill(n, 1, w) : n \in 0..MaxListLen, w \in LastValues}
        \cup {Fill(n, 0, 0) : n \in {MaxWriteReadNb, MaxWriteReadNb + 1,
                                      MaxWriteNb, MaxWriteNb + 1}}

ReadArgs == Addrs \X Counts \X {DefaultUnitId}

\* Writes: every address with one register, every list at address 0, and
\* two registers at the last address.
WriteArgs ==
    {<<a, <<1>>, 4>> : a \in Addrs}
        \cup {<<0, l, 4>> : l \in ValueLists}
        \cup {<<MaxRegAddr, <<1, 258>>, 4>>}

\* Write-reads: as the writes, with a read of one register; and a write of
\* one register with every read.
WriteReadArgs ==
    {<<a, <<1>>, 0, 1>> : a \in Addrs}
        \cup {<<0, l, 0, 1>> : l \in ValueLists}
        \cup {<<MaxRegAddr, <<1, 258>>, 0, 1>>}
        \cup {<<0, <<1>>, a, n>> : a \in Addrs, n \in Counts}

\* The transport raises, or answers unit 2 with an exception response.
ArgNets ==
    { [kind |-> "raise", result |-> FALSE, response |-> <<>>],
      [kind |-> "reply", result |-> TRUE,
       response |-> Hex(Frame(258, 0, 3, DefaultUnitId, <<131, 2>>))] }

NextArgs ==
    \/ ReadHoldingRegisters(ReadArgs, ArgNets)
    \/ WriteMultipleRegisters(WriteArgs, ArgNets)
    \/ WriteReadMultipleRegisters(WriteReadArgs, ArgNets)

SpecArgs == Init /\ [][NextArgs]_vars

\* ------------------------------------------------------------------------
\* Codec: custom requests of every length answered by their own echo, so
\* that what _add_mbap encodes is what _recv_pdu decodes
\* ------------------------------------------------------------------------

\* A PDU of n bytes, the i-th being i modulo 128.
Pad(n) == [i \in 1..n |-> i % 128]

\* PDUs: empty, one byte, two bytes, an exception response, and the
\* lengths around the largest a frame can carry.
CodecPdus ==
    { <<>>, <<3>>, <<3, 1>>, <<131, 2>>, <<16, 0, 171>>,
      Pad(253), Pad(254), Pad(255) }

\* Unit ids: both ends of a byte.
CodecUnits == {0, 255}

NextCodec ==
    \/ SetUnitId(CodecUnits)
    \/ CustomRequest(CodecPdus, {[kind |-> "raise", result |-> FALSE, response |-> <<>>]})

SpecCodec == Init /\ [][NextCodec]_vars

\* ------------------------------------------------------------------------
\* Hooks: the three operations under each trace hook
\* ------------------------------------------------------------------------

\* The hooks a caller may install.
Hooks == {"pass", "user", "raises"}

\* The transport raises, answers a read of 2 registers or a write of 2
\* registers well, answers with a wrong protocol id, or with an exception.
HookNets ==
    { [kind |-> "raise", result |-> FALSE, response |-> <<>>] }
        \cup { [kind |-> "reply", result |-> TRUE, response |-> Hex(b)] :
                 b \in { Frame(258, 0, 7, DefaultUnitId, <<3, 4, 0, 1, 0, 0>>),
                         Frame(258, 0, 6, 4, <<16, 0, 0, 0, 2>>),
                         Frame(258, 1, 7, DefaultUnitId, <<3, 4, 0, 1, 0, 0>>),
                         Frame(258, 0, 3, DefaultUnitId, <<131, 2>>) } }

NextHooks ==
    \/ SetOnTxRx(Hooks)
    \/ ReadHoldingRegisters({<<0, 2, DefaultUnitId>>, <<0, 0, DefaultUnitId>>}, HookNets)
    \/ WriteMultipleRegisters({<<0, <<1, 258>>, 4>>}, HookNets)
    \/ WriteReadMultipleRegisters({<<0, <<1>>, 0, 2>>}, HookNets)

SpecHooks == Init /\ [][NextHooks]_vars

\* ------------------------------------------------------------------------
\* Settings: assignments to host, port and timeout, and a read between them
\* ------------------------------------------------------------------------

\* Hosts: the default, two other valid ones, two strings that are no host,
\* and values that are no str.
HostValues ==
    { StrValue("121.134.228.36"), StrValue("localhost"), StrValue("::1"), StrValue("no host"), StrValue(""),
      IntValue(5), NoValue }

\* Ports: the default, both ends of the range and their neighbours, and
\* values that are no int.
PortValues ==
    { IntValue(DefaultPort), IntValue(0), IntValue(1), IntValue(PortLimit - 1), IntValue(PortLimit), IntValue(-1),
      StrValue("502"), FloatValue(502000), BoolValue(1), NoValue }

\* Timeouts: the default as a float and as an int, both ends of the interval
\* and their neighbours, strings that denote a number or none, and None.
TimeoutValues ==
    { FloatValue(DefaultTimeout), IntValue(DefaultTimeout), FloatValue(0), FloatValue(1),
      FloatValue(TimeoutLimit - 1), FloatValue(TimeoutLimit), FloatValue(-1),
      StrValue("0.001"), StrValue("3600"), StrValue("soon"), NoValue }

NextSettings ==
    \/ SetHost(HostValues)
    \/ SetPort(PortValues)
    \/ SetTimeout(TimeoutValues)
    \/ ReadHoldingRegisters({<<0, 2, DefaultUnitId>>},
                            {[kind |-> "reply", result |-> TRUE,
                              response |-> Hex(Frame(258, 1, 7, DefaultUnitId,
                                                     <<3, 4, 0, 1, 0, 0>>))]})

SpecSettings == Init /\ [][NextSettings]_vars

\* ------------------------------------------------------------------------
\* Script: the commands and register pairs of examples/retractable.py
\* ------------------------------------------------------------------------

\* The highest operation id the script reaches.
MaxOpid == 3

\* Times: none, zero, small ones, both signs, halves that differ, and both
\* ends of the 32-bit range.
Secs ==
    { NoValue, IntValue(0), IntValue(1), IntValue(10), IntValue(-1), IntValue(-2),
      IntValue(65535), IntValue(65536), IntValue(16909060), IntValue(-16909060),
      IntValue(2147483647), IntValue(MinInt32) }

\* Register pairs: zero, one in either register, the sign bit alone, the
\* largest time, all bits, and registers whose bytes all differ.
RegPairs ==
    { <<0, 0>>, <<1, 0>>, <<0, 1>>, <<0, 32768>>, <<65535, 32767>>, <<65535, 65535>>,
      <<258, 772>>, <<10, 0>> }

NextScript ==
    \/ SendCommand(MaxOpid, {0, 303}, Secs,
                   { [kind |-> "raise", result |-> FALSE, response |-> <<>>],
                     [kind |-> "reply", result |-> TRUE,
                      response |-> Hex(Frame(258, 0, 6, CommandUnit, <<16, 2, 24, 0, 4>>))] })
    \/ GetRemainTime(RegPairs)

SpecScript == InitScript /\ [][NextScript]_vars

\* ------------------------------------------------------------------------
\* Transaction ids: one call of each operation, and responses that carry
\* the transaction id of the request or another
\* ------------------------------------------------------------------------

\* The transaction ids of the responses: one that no request draws, and one
\* that a request may draw or not.
ResponseTids == {7, 258}

\* Response payloads: register lists for 2 registers and for 1, a write
\* echo, an exception, and a payload too short for any operation.
TidPayloads ==
    { <<3, 4, 0, 1, 0, 0>>, <<3, 2, 0, 1>>, <<16, 0, 0, 0, 2>>, <<131, 2>>, <<3>> }

\* The transport raises, or answers with a whole frame for unit 2 or unit 4.
TidNets ==
    { [kind |-> "raise", result |-> FALSE, response |-> <<>>] }
        \cup { [kind |-> "reply", result |-> TRUE,
                response |-> Hex(Frame(t, 0, Len(p) + 1, u, p))] :
                 t \in ResponseTids, u \in {DefaultUnitId, 4}, p \in TidPayloads }

NextTids ==
    \/ ReadHoldingRegisters({ <<0, 2, DefaultUnitId>> }, TidNets)
    \/ WriteMultipleRegisters({ <<0, <<1, 258>>, 4>> }, TidNets)
    \/ WriteReadMultipleRegisters({ <<0, <<1>>, 0, 1>> }, TidNets)

SpecTids == Init /\ [][NextTids]_vars

\* ------------------------------------------------------------------------
\* Properties
\* ------------------------------------------------------------------------

\* An address is outside 0..65535.
BadAddr(a) == a < 0 \/ a > 65535

\* Some value of a list is outside 0..65535.
BadValue(values) == \E i \in 1..Len(values) : values[i] < 0 \/ values[i] > 65535

\* An argument of the last call is out of contract: an address outside
\* 0..65535, a count outside the operation's bound, address + count beyond
\* 65536, or a register value outside 0..65535.
OutOfContract ==
    \/ /\ call.op = "read"
       /\ \/ BadAddr(call.addr)
          \/ call.nb < 1 \/ call.nb > 125
          \/ call.addr + call.nb > 65536
    \/ /\ call.op = "write"
       /\ \/ BadAddr(call.addr)
          \/ Len(call.values) < 1 \/ Len(call.values) > 123
          \/ call.addr + Len(call.values) > 65536
          \/ BadValue(call.values)
    \/ /\ call.op = "write_read"
       /\ \/ BadAddr(call.addr)
          \/ Len(call.values) < 1 \/ Len(call.values) > 121
          \/ call.addr + Len(call.values) > 65536
          \/ BadAddr(call.read_addr)
          \/ call.nb < 1 \/ call.nb > 125
          \/ call.read_addr + call.nb > 65536
          \/ BadValue(call.values)

\* The PDU of the request the last call posted: the posted bytes, less the
\* 7-byte header when the client frames its requests.
SentPdu ==
    LET b == FromHex(sent[1].command)
    IN  IF header THEN SubSeq(b, 8, Len(b)) ELSE b

\* C1: a call of read_holding_registers, write_multiple_registers or
\* write_read_multiple_registers with an argument out of contract never
\* reaches the transport: it ends in the validation error with nothing
\* posted and nothing traced.
C1_NoTransportOutOfContract ==
    OutOfContract =>
        /\ outcome.exc = "ValueError"
        /\ sent = <<>>
        /\ trace = <<>>
        /\ net = NoNet

\* A write whose only fault is a register value beyond 65535 was rejected
\* after an earlier call had reached the transport and failed.
C1_Witness ==
    /\ call.op = "write"
    /\ ~BadAddr(call.addr)
    /\ Len(call.values) = 2
    /\ call.values[2] > 65535
    /\ outcome.exc = "ValueError"
    /\ sent = <<>>
    /\ last_error # MB_NO_ERR

\* The last call, a read, was accepted and posted the 5-byte payload
\* 03, addrHi, addrLo, countHi, countLo.
ReadAccepted ==
    /\ outcome.exc # "ValueError"
    /\ Len(sent) = 1
    /\ SentPdu = <<3, call.addr \div 256, call.addr % 256, call.nb \div 256, call.nb % 256>>

\* C2 as stated: a read is rejected with a validation error whenever count
\* is not in [1,125] or address + count > 65536, and is accepted otherwise,
\* posting the payload 03, addrHi, addrLo, countHi, countLo.
C2_AsStated ==
    call.op = "read" =>
        IF call.nb < 1 \/ call.nb > 125 \/ call.addr + call.nb > 65536
        THEN outcome.exc = "ValueError"
        ELSE ReadAccepted

\* C2, amended: a read is rejected with a validation error whenever the
\* address is negative, count is not in [1,125] or address + count > 65536,
\* and is accepted otherwise, posting the payload 03, addrHi, addrLo,
\* countHi, countLo.
C2_ReadValidation ==
    call.op = "read" =>
        IF call.addr < 0 \/ call.nb < 1 \/ call.nb > 125 \/ call.addr + call.nb > 65536
        THEN outcome.exc = "ValueError"
        ELSE ReadAccepted

\* The read of the last register, address 65535 and count 1, was accepted,
\* and posted FF FF 00 01 after the function code.
C2_Witness ==
    /\ call.op = "read"
    /\ call.addr = 65535
    /\ call.nb = 1
    /\ ReadAccepted
    /\ SentPdu = <<3, 255, 255, 0, 1>>

\* The transport answered the last call with the hexadecimal form of a byte
\* string, Resp.
Answered == sent # <<>> /\ net.kind = "reply" /\ net.result /\ IsHex(net.response)

Resp == FromHex(net.response)

\* The failure sentinel of the last call's operation: False for a write,
\* None for the others.
Sentinel == IF call.op = "write" THEN BoolVal(FALSE) ELSE NoneVal

\* The least payload the last call's operation decodes.
MinPayload ==
    IF call.op = "read" THEN 3
    ELSE IF call.op = "write" THEN 5
    ELSE IF call.op = "write_read" THEN 4
    ELSE 2

\* The response to a read is one whole frame for the unit asked, its
\* payload 03, byteCount, registerBytes with byteCount = 2 * count =
\* len(registerBytes).
ReadAnswerWellFormed ==
    /\ call.op = "read"
    /\ Answered
    /\ Len(Resp) = 9 + 2 * call.nb
    /\ Resp[3] = 0 /\ Resp[4] = 0
    /\ Resp[5] * 256 + Resp[6] = Len(Resp) - 6
    /\ Resp[7] = call.unit
    /\ Resp[8] = 3
    /\ Resp[9] = 2 * call.nb

\* C3: a read of count registers that receives the well-formed payload
\* 03, byteCount, registerBytes returns exactly count values, the i-th the
\* big-endian 16-bit number of the i-th pair of register bytes.
C3_ReadDecodesBigEndian ==
    ReadAnswerWellFormed =>
        /\ outcome.kind = "return"
        /\ outcome.val.kind = "list"
        /\ Len(outcome.val.regs) = call.nb
        /\ \A i \in 1..call.nb :
               outcome.val.regs[i] = Resp[8 + 2 * i] * 256 + Resp[9 + 2 * i]

\* The payload 03 06 00 01 00 00 00 02 answered a read of 3 registers, which
\* returned [1, 0, 2].
C3_Witness ==
    /\ ReadAnswerWellFormed
    /\ call.nb = 3
    /\ SubSeq(Resp, 8, Len(Resp)) = <<3, 6, 0, 1, 0, 0, 0, 2>>
    /\ outcome.val.regs = <<1, 0, 2>>

\* The payload the frame decoder took from the response of the last call:
\* the last frame traced, a received one, less its header.
RxPdu ==
    LET f == trace[Len(trace)].frame
    IN  SubSeq(f, 8, Len(f))

\* The frame decoder handed the last call a payload that is no exception
\* response and has the operation's minimum length.
Received ==
    /\ trace # <<>>
    /\ ~trace[Len(trace)].is_tx
    /\ Len(RxPdu) >= MinPayload
    /\ RxPdu[1] < 128

\* The last call failed with a receive error recorded and the sentinel
\* returned.
FailedReceiving ==
    /\ outcome.kind = "return"
    /\ outcome.val = Sentinel
    /\ last_error = MB_RECV_ERR
    /\ last_except = EXP_NONE

\* C4 as stated: a read of count registers fails with a recorded receive
\* error and returns the sentinel unless the byteCount field of the payload
\* equals 2 * count and equals the number of register bytes after it.
C4_AsStated ==
    (call.op \in {"read", "write_read"} /\ Received) =>
        \/ RxPdu[2] = 2 * call.nb /\ RxPdu[2] = Len(RxPdu) - 2
        \/ FailedReceiving

\* C4, amended: a read of count registers fails with a recorded receive
\* error and returns the sentinel unless the byteCount field of the payload
\* is at least 2 * count and equals the number of register bytes after it.
C4_ByteCountChecked ==
    (call.op \in {"read", "write_read"} /\ Received) =>
        \/ RxPdu[2] >= 2 * call.nb /\ RxPdu[2] = Len(RxPdu) - 2
        \/ FailedReceiving

\* A read of 2 registers was answered 03 04 00 01, a byte count of 4 with 2
\* bytes after it, and failed.
C4_Witness ==
    /\ call.op = "read"
    /\ call.nb = 2
    /\ Received
    /\ RxPdu = <<3, 4, 0, 1>>
    /\ FailedReceiving

\* C5: for a well-formed response to a write that is no exception, the call
\* returns true exactly when the echoed address is the requested one and
\* the echoed count is len(values); when it returns false no error is
\* recorded.
C5_WriteEchoDecides ==
    (call.op = "write" /\ Received) =>
        /\ outcome.kind = "return"
        /\ outcome.val.kind = "bool"
        /\ outcome.val.flag <=>
               /\ RxPdu[2] * 256 + RxPdu[3] = call.addr
               /\ RxPdu[4] * 256 + RxPdu[5] = Len(call.values)
        /\ ~outcome.val.flag => last_error = MB_NO_ERR /\ last_except = EXP_NONE

\* A write of 2 registers was echoed with the right address and a count of
\* 1, and returned false with no error recorded.
C5_Witness ==
    /\ call.op = "write"
    /\ Len(call.values) = 2
    /\ Received
    /\ RxPdu = <<16, 0, 0, 0, 1>>
    /\ outcome.val = BoolVal(FALSE)
    /\ last_error = MB_NO_ERR

\* The response of the last call is a frame for the unit asked whose payload
\* starts with a function code that has the high bit set.
ExceptionAnswer ==
    /\ Answered
    /\ Len(Resp) >= 9
    /\ Resp[3] = 0 /\ Resp[4] = 0
    /\ Resp[5] * 256 + Resp[6] >= 3
    /\ Resp[5] * 256 + Resp[6] < 256
    /\ Len(Resp) >= 6 + Resp[5] * 256 + Resp[6]
    /\ Resp[7] = call.unit
    /\ Resp[8] >= 128

\* C6: when the function code of the response payload has its high bit set
\* and exception byte c follows, the operation returns its sentinel,
\* last_error is the modbus-exception code and last_except is c.
C6_ExceptionRecorded ==
    ExceptionAnswer =>
        /\ outcome.kind = "return"
        /\ outcome.val = Sentinel
        /\ last_error = MB_EXCEPT_ERR
        /\ last_except = Resp[9]

\* A read was answered 83 02: exception code 2.
C6_Witness ==
    /\ call.op = "read"
    /\ ExceptionAnswer
    /\ Resp[8] = 131
    /\ Resp[9] = 2
    /\ last_except = 2

\* C7 as stated: every call resets last_error and last_except before it
\* validates its arguments, so that after a call rejected by validation the
\* status shows no failure of an earlier call.
C7_AsStated ==
    outcome.exc = "ValueError" =>
        last_error = MB_NO_ERR /\ last_except = EXP_NONE

\* C8: a call rejected for an argument out of contract raises the
\* validation error, returns no sentinel, and sets neither last_error nor
\* last_except to an error value.
C8_RejectedNotRecorded ==
    [][OutOfContract' =>
          /\ outcome'.kind = "raise"
          /\ outcome'.exc = "ValueError"
          /\ last_error' \in {last_error, MB_NO_ERR}
          /\ last_except' \in {last_except, EXP_NONE}]_vars

\* A write-read was rejected while the status showed the exception an
\* earlier call had recorded.
C8_Witness ==
    /\ call.op = "write_read"
    /\ OutOfContract
    /\ outcome.exc = "ValueError"
    /\ last_error = MB_EXCEPT_ERR

\* C9 as stated: a call whose arguments pass validation returns normally,
\* whatever the transport does.
C9_AsStated ==
    (call.op # "none" /\ ~OutOfContract) => outcome.kind = "return"

\* The transport failed the last call: it raised, answered with "result"
\* not true, or with a response that is no hexadecimal string.
TransportFailed ==
    /\ sent # <<>>
    /\ net.kind = "raise" \/ ~net.result \/ ~IsHex(net.response)

\* The response of the last call fails the framing: fewer than 7 header
\* bytes, protocol id not 0, length >= 256, a unit id other than the one
\* expected, fewer than length - 1 payload bytes, or a payload of length - 1
\* bytes that is shorter than 2 bytes or than the operation's minimum.
FramingFailed ==
    /\ Answered
    /\ \/ Len(Resp) < 7
       \/ /\ Len(Resp) >= 7
          /\ \/ Resp[3] # 0 \/ Resp[4] # 0
             \/ Resp[5] * 256 + Resp[6] >= 256
             \/ Resp[7] # call.unit
             \/ Len(Resp) - 7 < Resp[5] * 256 + Resp[6] - 1
             \/ Resp[5] * 256 + Resp[6] - 1 < 2
             \/ Resp[5] * 256 + Resp[6] - 1 < MinPayload

\* C10 as stated: a transport failure is recorded as a send error and a
\* framing failure as a receive error; either leaves last_except at none
\* and makes the operation return its sentinel.
C10_AsStated ==
    /\ TransportFailed =>
           /\ outcome.kind = "return" /\ outcome.val = Sentinel
           /\ last_error = MB_SEND_ERR /\ last_except = EXP_NONE
    /\ FramingFailed =>
           /\ outcome.kind = "return" /\ outcome.val = Sentinel
           /\ last_error = MB_RECV_ERR /\ last_except = EXP_NONE

\* C11 as stated: a call invokes the transport exactly once when its
\* arguments pass validation and not at all otherwise, and a response is
\* decoded only after the transport has returned one.
C11_AsStated ==
    /\ OutOfContract => Len(sent) = 0
    /\ (call.op # "none" /\ ~OutOfContract) => Len(sent) = 1
    /\ (trace # <<>> /\ ~trace[Len(trace)].is_tx) => Answered

\* The two bytes of a 16-bit number, high byte first.
Bytes2(v) == <<v \div 256, v % 256>>

\* The bytes of a list of register values, two per value, high byte first,
\* in list order.
RegBytes(values) ==
    [i \in 1..(2 * Len(values)) |->
        IF i % 2 = 1 THEN values[(i + 1) \div 2] \div 256 ELSE values[i \div 2] % 256]

\* The payload the wire layout prescribes for the last call.
RequestPdu ==
    IF call.op = "read"
    THEN <<3>> \o Bytes2(call.addr) \o Bytes2(call.nb)
    ELSE IF call.op = "write"
    THEN <<16>> \o Bytes2(call.addr) \o Bytes2(Len(call.values))
             \o <<2 * Len(call.values)>> \o RegBytes(call.values)
    ELSE IF call.op = "write_read"
    THEN <<23>> \o Bytes2(call.read_addr) \o Bytes2(call.nb)
             \o Bytes2(call.addr) \o Bytes2(Len(call.values))
             \o <<2 * Len(call.values)>> \o RegBytes(call.values)
    ELSE call.values

\* The bytes the last call posted to the transport.
Posted == FromHex(sent[1].command)

\* The posted bytes are a header and the prescribed payload: transaction id
\* the one drawn, protocol id 0, length = payload length + 1 < 256, unit id
\* the call's.
PostedFramed ==
    /\ Len(Posted) >= 7
    /\ Posted[1] * 256 + Posted[2] = transaction_id
    /\ transaction_id \in 0..65535
    /\ Posted[3] = 0 /\ Posted[4] = 0
    /\ Posted[5] * 256 + Posted[6] = Len(Posted) - 7 + 1
    /\ Posted[5] * 256 + Posted[6] < 256
    /\ Posted[7] = call.unit
    /\ SubSeq(Posted, 8, Len(Posted)) = RequestPdu

EchoedFrame ==
    /\ call.op = "custom"
    /\ header
    /\ sent # <<>>
    /\ net.kind = "reply" /\ net.result
    /\ net.response = sent[1].command

\* The frame was decoded to the header fields it was encoded from and to
\* the payload of the request.
RoundTrip ==
    /\ Len(trace) = 2
    /\ LET rx == trace[2].frame
       IN  /\ ~trace[2].is_tx
           /\ Len(rx) = 7 + Len(call.values)
           /\ rx[1] * 256 + rx[2] = transaction_id
           /\ rx[3] * 256 + rx[4] = 0
           /\ rx[5] * 256 + rx[6] = Len(call.values) + 1
           /\ rx[7] = call.unit
    /\ outcome.kind = "return"
    /\ outcome.val = BytesVal(call.values)

\* C13 as stated: for any transaction id in 0..65535, unit id in 0..255 and
\* payload of fewer than 255 bytes, decoding the encoded frame parses back
\* the same header fields and yields the original payload.
C13_AsStated ==
    (EchoedFrame /\ call.unit \in 0..255 /\ Len(call.values) < 255) => RoundTrip

\* C13, amended: the same for a payload of at least 2 and fewer than 255
\* bytes whose first byte is below 0x80.
C13_RoundTrip ==
    (/\ EchoedFrame
     /\ call.unit \in 0..255
     /\ Len(call.values) < 255
     /\ Len(call.values) >= 2
     /\ call.values[1] < 128) => RoundTrip

\* A payload of 254 bytes went round with transaction id 65535 and unit id
\* 255.
C13_Witness ==
    /\ EchoedFrame
    /\ Len(call.values) = 254
    /\ transaction_id = 65535
    /\ call.unit = 255
    /\ RoundTrip

\* What the call that a step made returns when the hook is the default
\* no-op: the same operation on the same client with the same arguments,
\* the same transaction id drawn and the same transport behaviour.
WithDefaultHook ==
    LET c == [Begin EXCEPT !.on_tx_rx = "pass"]
    IN  IF call'.op = "read"
        THEN read_holding_registers(c, call'.addr, call'.nb, call'.unit,
                                    transaction_id', net')
        ELSE IF call'.op = "write"
        THEN write_multiple_registers(c, call'.addr, call'.values, call'.unit,
                                      transaction_id', net')
        ELSE write_read_multiple_registers(c, call'.addr, call'.values,
                                           call'.read_addr, call'.nb,
                                           transaction_id', net')

\* C14 as stated: whatever the trace hook is, a register operation returns
\* the result and leaves the last_error and last_except that it does under
\* the default hook, given the same arguments and transport behaviour.
C14_AsStated ==
    [][call'.op \in {"read", "write", "write_read"} =>
          /\ outcome'.exc = WithDefaultHook.exc.type
          /\ outcome'.val = WithDefaultHook.val
          /\ last_error' = WithDefaultHook.self.last_error
          /\ last_except' = WithDefaultHook.self.last_except]_vars

\* C15 as stated: on every exchange with the transport the hook is invoked
\* with the frame sent, flagged tx, and then with the frame received,
\* flagged rx, whether the exchange succeeds or fails.
C15_AsStated ==
    sent # <<>> =>
        /\ Len(trace) >= 1
        /\ trace[1] = [frame |-> Posted, is_tx |-> TRUE]
        /\ Answered =>
               /\ Len(trace) = 2
               /\ trace[2] = [frame |-> Resp, is_tx |-> FALSE]

\* The value a step assigned is valid for the setting it was assigned to:
\* a str that is a host, an int in 1..65535, a number inside (0, 3600).
ValidSetting ==
    LET v == call'.value
    IN  \/ call'.op = "host" /\ v.type = "str" /\ v.s \in {"121.134.228.36", "localhost", "::1"}
        \/ call'.op = "port" /\ v.type = "int" /\ v.n >= 1 /\ v.n <= 65535
        \/ /\ call'.op = "timeout"
           /\ \/ v.type \in {"int", "float"} /\ v.n > 0 /\ v.n < 3600000
              \/ v.type = "str" /\ v.s = "0.001"

\* The value a step assigned is invalid for its setting.
InvalidSetting ==
    LET v == call'.value
    IN  \/ call'.op = "host" /\ (v.type # "str" \/ v.s \in {"no host", ""})
        \/ call'.op = "port" /\ (v.type # "int" \/ v.n < 1 \/ v.n > 65535)
        \/ /\ call'.op = "timeout"
           /\ \/ v.type \in {"int", "float"} /\ (v.n <= 0 \/ v.n >= 3600000)
              \/ v.type = "str" /\ v.s = "3600"

\* The value a step assigned differs from the one the setting had.
DiffersFromCurrent ==
    LET v == call'.value
    IN  \/ call'.op = "host" /\ v.s # host
        \/ call'.op = "port" /\ v.n # port
        \/ call'.op = "timeout" /\ (IF v.type = "str" THEN 1 ELSE v.n) # timeout

\* The setting of a step's assignment holds the value assigned.
Stored ==
    LET v == call'.value
    IN  \/ call'.op = "host" /\ host' = v.s /\ UNCHANGED <<port, timeout>>
        \/ call'.op = "port" /\ port' = v.n /\ UNCHANGED <<host, timeout>>
        \/ /\ call'.op = "timeout"
           /\ timeout' = (IF v.type = "str" THEN 1 ELSE v.n)
           /\ UNCHANGED <<host, port>>

\* C16: assigning host, port or timeout a valid value that differs from the
\* current one calls close() and then stores the value; assigning an invalid
\* value raises, calls no close() and leaves host, port and timeout as they
\* were.
C16_SettersCloseFirst ==
    [][call'.op \in {"host", "port", "timeout"} =>
          /\ (ValidSetting /\ DiffersFromCurrent) =>
                 /\ outcome'.kind = "return"
                 /\ events' = <<"close", "store">>
                 /\ Stored
          /\ InvalidSetting =>
                 /\ outcome'.kind = "raise"
                 /\ events' = <<>>
                 /\ UNCHANGED <<host, port, timeout>>]_vars

\* The port was changed to 65535, the highest valid one, close() called
\* first.
C16_Witness ==
    /\ call.op = "port"
    /\ call.value = IntValue(65535)
    /\ port = 65535
    /\ events = <<"close", "store">>

\* C17 as stated: the unit id the client holds is always in 0..255, and a
\* call given a unit id outside that range is rejected as a validation error
\* before anything is encoded.
C17_AsStated ==
    /\ unit_id \in 0..255
    /\ (call.op \in {"read", "write"} /\ call.unit \notin 0..255) =>
           outcome.exc = "ValueError" /\ sent = <<>>

\* The last call, a write, was accepted and posted the payload 10, addrHi,
\* addrLo, countHi, countLo, byteCount = 2 * len(values), then each value as
\* two bytes, high byte first, in list order.
WriteAccepted ==
    /\ outcome.exc # "ValueError"
    /\ Len(sent) = 1
    /\ SentPdu = <<16, call.addr \div 256, call.addr % 256,
                   Len(call.values) \div 256, Len(call.values) % 256,
                   2 * Len(call.values)>> \o RegBytes(call.values)

\* C18 as stated: a write is accepted exactly when len(values) is in
\* [1,123], address + len(values) <= 65536 and every value is in [0,65535],
\* and then posts the payload of the wire layout.
C18_AsStated ==
    call.op = "write" =>
        IF /\ Len(call.values) >= 1 /\ Len(call.values) <= 123
           /\ call.addr + Len(call.values) <= 65536
           /\ ~BadValue(call.values)
        THEN WriteAccepted
        ELSE outcome.exc = "ValueError"

\* C18, amended: a write is accepted exactly when the address is not
\* negative, len(values) is in [1,123], address + len(values) <= 65536 and
\* every value is in [0,65535], and then posts the payload of the wire
\* layout.
C18_WriteValidation ==
    call.op = "write" =>
        IF /\ call.addr >= 0
           /\ Len(call.values) >= 1 /\ Len(call.values) <= 123
           /\ call.addr + Len(call.values) <= 65536
           /\ ~BadValue(call.values)
        THEN WriteAccepted
        ELSE outcome.exc = "ValueError"

\* The write of [1, 258] to address 0 was accepted and posted
\* 10 00 00 00 02 04 00 01 01 02.
C18_Witness ==
    /\ call.op = "write"
    /\ call.addr = 0
    /\ call.values = <<1, 258>>
    /\ WriteAccepted
    /\ SentPdu = <<16, 0, 0, 0, 2, 4, 0, 1, 1, 2>>

\* The last call was the write of a sendcommand that was given a time.
SentTime == call.op = "write" /\ call.value.type = "int"

\* The low and the high 16 bits of the two's complement of a 32-bit n.
LowHalf(n) == (IF n < 0 THEN n - MinInt32 ELSE n) % 65536
HighHalf(n) == ((IF n < 0 THEN n - MinInt32 ELSE n) \div 65536) + (IF n < 0 THEN 32768 ELSE 0)

\* C19 as stated: a signed 32-bit integer is split into two registers, the
\* low one first, and recombined from them it is the original; a register
\* pair decoded and encoded again is unchanged.
C19_AsStated ==
    /\ SentTime =>
           /\ Len(call.values) = 4
           /\ call.values[3] = LowHalf(call.value.n)
           /\ call.values[4] = HighHalf(call.value.n)
           /\ getremaintime(byteorder, call.values[3], call.values[4]) = call.value.n
    /\ call.op = "getremaintime" =>
           unpack_HH(byteorder, pack_i(byteorder, outcome.val.regs[1])) = call.values

\* The response of the last call is one frame for the unit asked whose
\* payload is exactly two bytes, the first with its high bit set.
BareExceptionAnswer ==
    /\ call.op \in {"read", "write", "write_read"}
    /\ Answered
    /\ Len(Resp) = 9
    /\ Resp[3] = 0 /\ Resp[4] = 0
    /\ Resp[5] * 256 + Resp[6] = 3
    /\ Resp[7] = call.unit
    /\ Resp[8] >= 128

\* C20: a response whose payload is exactly the two bytes fc >= 0x80, code
\* is recorded as a device exception with last_except = code, not as a
\* receive error for a payload shorter than the operation's minimum (3 for
\* a read, 5 for a write, 4 for a write-read).
C20_ExceptionBeforeMinLen ==
    BareExceptionAnswer =>
        /\ 2 < MinPayload
        /\ last_error = MB_EXCEPT_ERR
        /\ last_error # MB_RECV_ERR
        /\ last_except = Resp[9]
        /\ outcome.kind = "return"
        /\ outcome.val = Sentinel

\* A write, whose response needs 5 bytes, was answered 90 01 and recorded
\* exception 1.
C20_Witness ==
    /\ call.op = "write"
    /\ BareExceptionAnswer
    /\ Resp[8] = 144
    /\ last_except = 1
    /\ outcome.val = BoolVal(FALSE)

\* The transaction ids a response may carry in the place of the one sent:
\* the least and the greatest, of which a request may have drawn the
\* latter, the other a request may have drawn, and one that none drew.
ForeignTids == {0, 7, 258, 65535}

\* The transport's answer n with transaction id t in the place of its own.
Retagged(n, t) ==
    [n EXCEPT !.response = Hex(PackH(t)) \o SubSeq(n.response, 5, Len(n.response))]

\* The register operation of call cl made again on client c, with
\* transaction id tid drawn and the transport doing n.
Replay(c, cl, tid, n) ==
    IF cl.op = "read"
    THEN read_holding_registers(c, cl.addr, cl.nb, cl.unit, tid, n)
    ELSE IF cl.op = "write"
    THEN write_multiple_registers(c, cl.addr, cl.values, cl.unit, tid, n)
    ELSE write_read_multiple_registers(c, cl.addr, cl.values, cl.read_addr, cl.nb, tid, n)

\* How a call with result r ends: the value returned, the exception raised,
\* and the status recorded.
Ending(r) == <<r.val, r.exc.type, r.self.last_error, r.self.last_except>>

\* The last call was a register operation.
RegisterOp == call.op \in {"read", "write", "write_read"}

\* The transaction id the last call drew, if it drew one.
DrawnTid == IF header THEN transaction_id ELSE 258

\* C21: the transaction id of a response is not compared with the one sent:
\* a register operation ends the same way, with the same value returned
\* and the same status recorded, whatever transaction id the response
\* carries, the request's own or any other.
C21_TransactionIdIgnored ==
    [][(RegisterOp' /\ Answered' /\ Len(Resp') >= 2) =>
          \A t \in ForeignTids :
              Ending(Replay(Begin, call', DrawnTid', Retagged(net', t)))
                  = <<outcome'.val, outcome'.exc, last_error', last_except'>>]_vars

\* A read of 2 registers that had drawn transaction id 258 or 65535 was
\* answered by a frame with transaction id 7, and returned [1, 0].
C21_Witness ==
    /\ call.op = "read"
    /\ header
    /\ Answered
    /\ Len(Resp) = 13
    /\ UnpackH(SubSeq(Resp, 1, 2)) = 7
    /\ transaction_id # 7
    /\ UnpackH(SubSeq(FromHex(sent[1].command), 1, 2)) = transaction_id
    /\ outcome.val = ListVal(<<1, 0>>)
    /\ last_error = MB_NO_ERR

\* The length field of the response of the last call.
LengthField == Resp[5] * 256 + Resp[6]

\* C22 as stated: a payload that the frame decoder accepts consists of
\* exactly length - 1 bytes, those that follow the 7-byte header; a response
\* with fewer than length - 1 bytes after its header fails with a receive
\* error, whatever the length field, so that a length field of 0, 1 or 2
\* yields no accepted payload.
C22_AsStated ==
    /\ Received =>
           /\ Len(RxPdu) = LengthField - 1
           /\ RxPdu = SubSeq(Resp, 8, 6 + LengthField)
           /\ LengthField > 2
    /\ (Answered /\ Len(Resp) >= 7 /\ Len(Resp) - 7 < LengthField - 1) => FailedReceiving

\* C23: in every state a sequence of public calls reaches, whether they
\* succeeded, failed or were rejected, last_except differs from none only
\* if last_error is the modbus-exception code: no send or receive error is
\* recorded together with the exception code of an earlier call.
C23_ExceptOnlyWithExceptError ==
    /\ last_except # EXP_NONE => last_error = MB_EXCEPT_ERR
    /\ last_error \in {MB_SEND_ERR, MB_RECV_ERR} => last_except = EXP_NONE

\* A write-read made after a write to unit 4 was failed by the transport:
\* a send error is recorded, and no exception code.
C23_Witness ==
    /\ call.op = "write_read"
    /\ unit_id = 4
    /\ ~isread
    /\ TransportFailed
    /\ outcome.val = NoneVal
    /\ last_error = MB_SEND_ERR
    /\ last_except = EXP_NONE

\* C24: a read_holding_registers or write_read_multiple_registers call
\* that returns normally returns None exactly when last_error is not 'no
\* error' after it, and otherwise a register list, with last_error 'no
\* error' and last_except none whatever earlier calls recorded.
C24_NoneIffErrorRecorded ==
    (call.op \in {"read", "write_read"} /\ outcome.kind = "return") =>
        /\ outcome.val.kind \in {"None", "list"}
        /\ outcome.val = NoneVal <=> last_error # MB_NO_ERR
        /\ outcome.val.kind = "list" =>
               /\ outcome.val.regs # <<>>
               /\ last_error = MB_NO_ERR
               /\ last_except = EXP_NONE

\* A write-read of one register was answered 03 02 00 01 and returned [1]
\* with a clean status.
C24_Witness ==
    /\ call.op = "write_read"
    /\ Received
    /\ RxPdu = <<3, 2, 0, 1>>
    /\ outcome.kind = "return"
    /\ outcome.val = ListVal(<<1>>)
    /\ last_error = MB_NO_ERR
    /\ last_except = EXP_NONE

\* The positions in the trace of the frames the last call received.
RxFrames == {i \in 1..Len(trace) : ~trace[i].is_tx}

\* Byte string a ends byte string b.
IsSuffix(a, b) == Len(a) <= Len(b) /\ SubSeq(b, Len(b) - Len(a) + 1, Len(b)) = a

\* Bytes are left in the receive buffer.
LeftOver == ~recved.none /\ recved.data # <<>>

\* What the last call decoded and what it left in the receive buffer come
\* from its own response alone: if the transport answered, every frame it
\* received, followed by the bytes left in the buffer, is the response; if
\* the transport failed, the buffer is empty, no frame was received and the
\* operation failed; if the call posted nothing, it received nothing.
OwnResponseOnly ==
    IF sent = <<>> THEN RxFrames = {}
    ELSE IF Answered
    THEN /\ ~recved.none
         /\ IsSuffix(recved.data, Resp)
         /\ \A i \in RxFrames : trace[i].frame \o recved.data = Resp
    ELSE /\ recved = NoneBytes
         /\ RxFrames = {}
         /\ outcome.kind = "return" /\ outcome.val = Sentinel
         /\ last_error = MB_SEND_ERR

\* C25: response bytes are never carried from one exchange into another:
\* whatever bytes an exchange has left in the receive buffer, trailing bytes
\* or a response not decoded, the next call that sends decodes the bytes of
\* its own response only, and decodes nothing if the transport fails it.
C25_NoCarryOver ==
    [][LeftOver => OwnResponseOnly']_vars

\* A read was answered by a frame with a byte after its payload: it returned
\* the registers and left that byte in the receive buffer for the calls
\* that follow.
C25_Witness ==
    /\ call.op = "read"
    /\ Answered
    /\ OwnResponseOnly
    /\ outcome.val.kind = "list"
    /\ recved.data = <<Resp[Len(Resp)]>>
    /\ LeftOver

\* The function code of the request of the last call.
RequestCode ==
    IF call.op = "read" THEN READ_HOLDING_REGISTERS
    ELSE IF call.op = "write" THEN WRITE_MULTIPLE_REGISTERS
    ELSE WRITE_READ_MULTIPLE_REGISTERS

\* The last call returned a successful result: a register list, or true.
Succeeded ==
    /\ outcome.kind = "return"
    /\ outcome.val.kind = "list" \/ outcome.val = BoolVal(TRUE)

\* C26 as stated: a register operation returns a successful result only
\* when the function code of the response payload is that of the request
\* it sent: 0x03 for a read, 0x10 for a write, 0x17 for a write-read.
C26_AsStated ==
    (RegisterOp /\ Succeeded) => (Received /\ RxPdu[1] = RequestCode)

\* The direction a request is posted with when the direction flag is d.
Direction(d) == IF d THEN "read" ELSE "write"

\* The last call, a write-read, posted one request whose payload is 0x17,
\* read address, read count, write address, write count, byteCount and the
\* write values.
WriteReadPosted ==
    /\ call.op = "write_read"
    /\ Len(sent) = 1
    /\ SentPdu = RequestPdu

\* The read and write operations leave the direction and the unit id they
\* send with: a read that posts leaves 'read', a write that posts leaves
\* 'write', and each the unit id it was given.
ReadWriteSetBoth ==
    /\ (call.op = "read" /\ sent # <<>>) => (isread /\ unit_id = call.unit)
    /\ (call.op = "write" /\ sent # <<>>) => (~isread /\ unit_id = call.unit)

C28_AsStated ==
    [][(RegisterOp' /\ outcome'.exc = "ValueError") =>
          UNCHANGED <<unit_id, isread, transaction_id, recved, last_error, last_except>>]_vars

=============================================================================
